---- MODULE Spec2Model ----
(***************************************************************************)
(* A model of jailscraper/spiders/inmate_spider.py (InmatesSpider): seed   *)
(* resolution, enumeration of the jail-number universe, the crawl          *)
(* (start_requests / parse), raw-page storage keys and the completeness    *)
(* flag.                                                                   *)
(*                                                                         *)
(* Strings are TLA+ strings (Len, SubSeq and \o act on them as on Python   *)
(* str).  A datetime is the number of days since 1970-01-01: every         *)
(* datetime of the program is at midnight (date.today() combined with      *)
(* time.min, or strptime of a '%Y-%m-%d' string), and ONE_DAY is 1.        *)
(***************************************************************************)
EXTENDS Integers, Sequences, FiniteSets, TLC

VARIABLES
    cfg,         \* app_config: USE_S3_STORAGE, USE_LOCAL_STORAGE, TARGET, FALLBACK_START_DATE
    today,       \* self._today
    yesterday,   \* self._yesterday
    testing,     \* self._testing
    dirExists,   \* the seed store exists (data/daily, or manifest.csv on S3)
    daily,       \* the seed partitions: day |-> the Booking_Id column of its record list
    pc,          \* where the run is
    seed,        \* what _get_seed_file returned: [last_date, f]
    start_date,  \* self._start_date
    cursor,      \* last_date on entry to the scan loop of _generate_urls
    scan,        \* what the scan loop appended, in order: [d, num, jailnumber]
    urls,        \* what _generate_urls returned
    nextReq,     \* position of start_requests in its loop over urls
    req,         \* per issued request: "unissued", "inflight", "failed", "parsed", "raised"
    parseCalls,  \* per request: how often parse was called with its response
    rows,        \* per request: the row parse yielded, or NoRow
    raw_local,   \* data/raw: file path |-> body
    raw_s3,      \* the bucket: key |-> body
    sample,      \* a full url list and what the sampling slice returned of it
    classified   \* a booking date and the flag _is_complete_record gave it

vars == <<cfg, today, yesterday, testing, dirExists, daily, pc, seed, start_date,
          cursor, scan, urls, nextReq, req, parseCalls, rows, raw_local, raw_s3,
          sample, classified>>

-----------------------------------------------------------------------------
(* Bounds of the model *)

\* the days of the model are WindowStart .. WindowStart + MaxDays
MaxDays == 3
\* at most this many partitions in the seed store
MaxFiles == 2
\* at most this many rows in a seed partition's record list
MaxSeedRows == 2
\* app_config.MAX_DEFAULT_JAIL_NUMBER, the per-day cap
MAX_DEFAULT_JAIL_NUMBER == 2
\* the longest full url list given to the sampling slice
MaxSampleLen == 650
\* the days given to the classifier are WindowStart - 2 .. WindowStart + MaxClassifyDays
MaxClassifyDays == 10

\* the slice of line 87
SAMPLE_SIZE == 600

ONE_DAY == 1

-----------------------------------------------------------------------------
(* str *)

Digit(n) == SubSeq("0123456789", n + 1, n + 1)

IsDigit(c) == \E n \in 0..9 : c = Digit(n)

DigitVal(c) == CHOOSE n \in 0..9 : c = Digit(n)

\* str(n) for n >= 0
RECURSIVE Decimal(_)
Decimal(n) == IF n < 10 THEN Digit(n) ELSE Decimal(n \div 10) \o Digit(n % 10)

\* '{:0<w>d}'.format(n): at least w digits, zeros on the left
RECURSIVE ZeroPad(_, _)
ZeroPad(s, w) == IF Len(s) >= w THEN s ELSE ZeroPad("0" \o s, w)

AllDigits(s) == Len(s) > 0 /\ \A i \in 1..Len(s) : IsDigit(SubSeq(s, i, i))

\* int(s[:n]) of a string of digits
RECURSIVE DecValUpTo(_, _)
DecValUpTo(s, n) ==
    IF n = 0 THEN 0 ELSE 10 * DecValUpTo(s, n - 1) + DigitVal(SubSeq(s, n, n))

\* int(s) of a string of digits
DecVal(s) == DecValUpTo(s, Len(s))

\* where the one-character sep occurs in s
Seps(s, sep) == { i \in 1..Len(s) : SubSeq(s, i, i) = sep }

\* the k-th of them; 0 before the first and Len(s) + 1 after the last
NthSep(s, sep, k) ==
    IF k = 0 THEN 0
    ELSE IF k > Cardinality(Seps(s, sep)) THEN Len(s) + 1
    ELSE CHOOSE p \in Seps(s, sep) : Cardinality({ q \in Seps(s, sep) : q < p }) = k - 1

\* s.split(sep) for a one-character sep
Split(s, sep) ==
    [k \in 1..(Cardinality(Seps(s, sep)) + 1) |->
        SubSeq(s, NthSep(s, sep, k - 1) + 1, NthSep(s, sep, k) - 1)]

\* s.splitlines(): no empty last line after a final newline, [] for ''
Splitlines(s) ==
    LET parts == Split(s, "\n")
    IN  IF parts[Len(parts)] = "" THEN SubSeq(parts, 1, Len(parts) - 1) ELSE parts

StartsWith(s, p) == Len(s) >= Len(p) /\ SubSeq(s, 1, Len(p)) = p

\* seq[i:] of Python, i of either sign
PySliceFrom(s, i) ==
    LET n == Len(s)
        lo == IF i < 0 THEN (IF n + i < 0 THEN 0 ELSE n + i)
              ELSE (IF i > n THEN n ELSE i)
    IN  SubSeq(s, lo + 1, n)

Last(s) == s[Len(s)]

-----------------------------------------------------------------------------
(* datetime *)

IsLeap(y) == (y % 4 = 0 /\ y % 100 # 0) \/ y % 400 = 0

DaysInMonth(y, m) ==
    IF m = 2 THEN (IF IsLeap(y) THEN 29 ELSE 28)
    ELSE IF m \in {4, 6, 9, 11} THEN 30 ELSE 31

\* the day number of the proleptic Gregorian date y-m-d
DaysFromCivil(y, m, d) ==
    LET yy  == IF m <= 2 THEN y - 1 ELSE y
        era == yy \div 400
        yoe == yy - era * 400
        mp  == IF m > 2 THEN m - 3 ELSE m + 9
        doy == (153 * mp + 2) \div 5 + d - 1
        doe == yoe * 365 + yoe \div 4 - yoe \div 100 + doy
    IN  era * 146097 + doe - 719468

\* the date of a day number
CivilFromDays(z) ==
    LET zz  == z + 719468
        era == zz \div 146097
        doe == zz - era * 146097
        yoe == (doe - doe \div 1460 + doe \div 36524 - doe \div 146096) \div 365
        doy == doe - (365 * yoe + yoe \div 4 - yoe \div 100)
        mp  == (5 * doy + 2) \div 153
        d   == doy - (153 * mp + 2) \div 5 + 1
        m   == IF mp < 10 THEN mp + 3 ELSE mp - 9
    IN  [y |-> IF m <= 2 THEN yoe + era * 400 + 1 ELSE yoe + era * 400, m |-> m, d |-> d]

ValueError == -1

\* datetime(y, m, d), ValueError for a day that is not in the calendar
DateOrError(y, m, d) ==
    IF y >= 1 /\ m \in 1..12 /\ d \in 1..DaysInMonth(y, m)
    THEN DaysFromCivil(y, m, d)
    ELSE ValueError

\* the fields of '%Y-%m-%d': four digits of year, one or two of month and of day
StrptimeParts(p) ==
    IF /\ Len(p) = 3
       /\ AllDigits(p[1]) /\ Len(p[1]) = 4
       /\ AllDigits(p[2]) /\ Len(p[2]) <= 2
       /\ AllDigits(p[3]) /\ Len(p[3]) <= 2
    THEN DateOrError(DecVal(p[1]), DecVal(p[2]), DecVal(p[3]))
    ELSE ValueError

\* datetime.strptime(s, '%Y-%m-%d'); ValueError for a string of another format
Strptime(s) == StrptimeParts(Split(s, "-"))

\* dt.strftime('%Y-%m-%d')
StrftimeIso(z) ==
    LET c == CivilFromDays(z)
    IN  ZeroPad(Decimal(c.y), 4) \o "-" \o ZeroPad(Decimal(c.m), 2)
            \o "-" \o ZeroPad(Decimal(c.d), 2)

\* dt.strftime('%Y-%m%d'), the date part of a jail number
StrftimeQuery(z) ==
    LET c == CivilFromDays(z)
    IN  ZeroPad(Decimal(c.y), 4) \o "-" \o ZeroPad(Decimal(c.m), 2)
            \o ZeroPad(Decimal(c.d), 2)

\* the characters of a partition's file name, in code-point order
Alphabet == "-.0123456789csv"

Ord(c) == CHOOSE i \in 1..Len(Alphabet) : SubSeq(Alphabet, i, i) = c

RECURSIVE StrLeq(_, _)
StrLeq(a, b) ==
    IF Len(a) = 0 THEN TRUE
    ELSE IF Len(b) = 0 THEN FALSE
    ELSE IF Head(a) = Head(b) THEN StrLeq(Tail(a), Tail(b))
    ELSE Ord(Head(a)) < Ord(Head(b))

\* sorted(names)[-1]: the greatest string in code-point order
LastSorted(names) == CHOOSE f \in names : \A g \in names : StrLeq(g, f)

-----------------------------------------------------------------------------
(* The inputs of a run *)

WindowStart == DaysFromCivil(2023, 12, 30)

Days == WindowStart .. WindowStart + MaxDays

S3_BUCKET == "bucket"

INMATE_URL_PREFIX == "http://jail/details?jailnumber="

\* app_config.INMATE_URL_TEMPLATE.format(jailnumber)
INMATE_URL_TEMPLATE(jailnumber) == INMATE_URL_PREFIX \o jailnumber

\* the number without its zeros
JailNumberUnpadded(next_query, num) == next_query \o Decimal(num)

\* '{0}{1:03d}'.format(next_query, num)
JailNumber(next_query, num) == next_query \o ZeroPad(Decimal(num), 3)

\* Booking_Id values found in seed partitions: bookings of the day before the window
SeedIds == { JailNumber(StrftimeQuery(WindowStart - 1), n) : n \in 1..2 }

SeedContents == UNION { [1..n -> SeedIds] : n \in 0..MaxSeedRows }

Listings == { L \in SUBSET Days : Cardinality(L) <= MaxFiles }

MaxOf(S) == CHOOSE x \in S : \A y \in S : y <= x

\* the seed stores: the partitions of a listing, the last one with any content
SeedStores ==
    { [d \in L |-> IF d = MaxOf(L) THEN rws ELSE <<JailNumber(StrftimeQuery(WindowStart - 1), 1)>>] :
        L \in Listings \ {{}}, rws \in SeedContents } \cup { <<>> }

\* the values of app_config.FALLBACK_START_DATE
Fallbacks == { WindowStart, WindowStart + 1 }

Configs ==
    { [USE_S3_STORAGE |-> s3, USE_LOCAL_STORAGE |-> loc,
       TARGET |-> IF s3 /\ ~loc THEN "stg" ELSE "", FALLBACK_START_DATE |-> StrftimeIso(fb)] :
        s3 \in BOOLEAN, loc \in BOOLEAN, fb \in Fallbacks }

-----------------------------------------------------------------------------
(* The seed stores as the program reads them *)

LocalFileName(d) == StrftimeIso(d) \o ".csv"

\* os.listdir('data/daily'); the empty set stands for FileNotFoundError too,
\* which get_local_seed_file turns into []
Listdir(exists, dly) == IF exists THEN { LocalFileName(d) : d \in DOMAIN dly } ELSE {}

\* csv.DictReader(open('data/daily/' + name)): the Booking_Id of each row
LocalRows(dly, name) == dly[CHOOSE d \in DOMAIN dly : LocalFileName(d) = name]

S3Target(c) == IF c.TARGET # "" THEN c.TARGET \o "/" ELSE ""

SeedUrl(c, d) ==
    "https://s3.amazonaws.com/" \o S3_BUCKET \o "/" \o S3Target(c) \o "daily/"
        \o StrftimeIso(d) \o ".csv"

RECURSIVE ManifestLines(_, _)
ManifestLines(c, L) ==
    IF L = {} THEN ""
    ELSE LET d == CHOOSE x \in L : \A y \in L : x <= y
         IN  SeedUrl(c, d) \o "\n" \o ManifestLines(c, L \ {d})

\* requests.get(<manifest url>).text: one line per partition, oldest first; the
\* error document of S3 when there is no manifest
ManifestText(c, exists, dly) ==
    IF exists THEN ManifestLines(c, DOMAIN dly)
    ELSE "<Error><Code>NoSuchKey</Code></Error>"

\* requests.get raises MissingSchema for a url without a scheme
HasScheme(url) == StartsWith(url, "http://") \/ StartsWith(url, "https://")

\* csv.DictReader(io.StringIO(requests.get(seed_url).text)): the Booking_Id of each row
S3Rows(c, dly, seed_url) ==
    IF \E d \in DOMAIN dly : SeedUrl(c, d) = seed_url
    THEN dly[CHOOSE d \in DOMAIN dly : SeedUrl(c, d) = seed_url]
    ELSE <<>>

-----------------------------------------------------------------------------
(* Seed resolution *)

Returned(last_date, f) == [last_date |-> last_date, f |-> f, raised |-> ""]

Raised(what) == [last_date |-> "", f |-> <<>>, raised |-> what]

get_local_seed_file(c, exists, dly) ==
    LET files == Listdir(exists, dly)
    IN  IF files = {} THEN Returned(c.FALLBACK_START_DATE, <<>>)
        ELSE LET last == LastSorted(files)
             IN  Returned(Split(last, ".")[1], LocalRows(dly, last))

get_s3_seed_file(c, exists, dly) ==
    LET lines == Splitlines(ManifestText(c, exists, dly))
    IN  IF lines = <<>> THEN Raised("IndexError")
        ELSE LET seed_url  == Last(lines)
                 last_date == Split(Last(Split(seed_url, "/")), ".")[1]
             IN  IF ~HasScheme(seed_url) THEN Raised("MissingSchema")
                 ELSE Returned(last_date, S3Rows(c, dly, seed_url))

get_seed_file(c, exists, dly) ==
    IF c.USE_S3_STORAGE THEN get_s3_seed_file(c, exists, dly)
    ELSE get_local_seed_file(c, exists, dly)

-----------------------------------------------------------------------------
(* Enumeration *)

\* the numbers of a day from the cap down
ScanDayDescending(last_date) ==
    [num \in 1..MAX_DEFAULT_JAIL_NUMBER |->
        [d |-> last_date, num |-> MAX_DEFAULT_JAIL_NUMBER + 1 - num,
         jailnumber |-> JailNumber(StrftimeQuery(last_date),
                                   MAX_DEFAULT_JAIL_NUMBER + 1 - num)]]

\* the for loop of lines 81-83 for one day
ScanDay(last_date) ==
    [num \in 1..MAX_DEFAULT_JAIL_NUMBER |->
        [d |-> last_date, num |-> num,
         jailnumber |-> JailNumber(StrftimeQuery(last_date), num)]]

\* the scan with today included
RECURSIVE ScanUniverseThroughToday(_, _)
ScanUniverseThroughToday(last_date, tday) ==
    IF last_date <= tday
    THEN ScanDay(last_date) \o ScanUniverseThroughToday(last_date + ONE_DAY, tday)
    ELSE <<>>

\* the while loop of lines 79-84
RECURSIVE ScanUniverse(_, _)
ScanUniverse(last_date, tday) ==
    IF last_date < tday
    THEN ScanDay(last_date) \o ScanUniverse(last_date + ONE_DAY, tday)
    ELSE <<>>

\* urls[len(urls) - 600:]
SampleLast(full) == PySliceFrom(full, Len(full) - SAMPLE_SIZE)

NoUrls(s, what) ==
    [raised |-> what, seed |-> s, start_date |-> ValueError, cursor |-> ValueError,
     scan |-> <<>>, urls |-> <<>>]

\* lines 78-89: the scan from the cursor, then the sampling slice
urls_from_scan(s, last_date, seeded, cur, sc, tst) ==
    [raised |-> "", seed |-> s, start_date |-> last_date, cursor |-> cur, scan |-> sc,
     urls |-> IF tst
              THEN SampleLast(seeded \o [i \in 1..Len(sc) |-> INMATE_URL_TEMPLATE(sc[i].jailnumber)])
              ELSE seeded \o [i \in 1..Len(sc) |-> INMATE_URL_TEMPLATE(sc[i].jailnumber)]]

\* lines 73-76: the cursor
urls_from_cursor(s, last_date, seeded, cur, tday, tst) ==
    urls_from_scan(s, last_date, seeded, cur, ScanUniverse(cur, tday), tst)

\* lines 70-71: the urls of the seed rows
urls_from_date(s, last_date, seeded, tday, tst) ==
    IF last_date = ValueError THEN NoUrls(s, "ValueError")
    ELSE urls_from_cursor(s, last_date, seeded,
                          IF Len(seeded) > 0 THEN last_date + ONE_DAY ELSE last_date,
                          tday, tst)

urls_from_seed(s, tday, tst) ==
    IF s.raised # "" THEN NoUrls(s, s.raised)
    ELSE urls_from_date(s, Strptime(s.last_date),
                        [i \in 1..Len(s.f) |-> INMATE_URL_TEMPLATE(s.f[i])], tday, tst)

generate_urls(c, exists, dly, tday, tst) ==
    urls_from_seed(get_seed_file(c, exists, dly), tday, tst)

-----------------------------------------------------------------------------
(* Storage keys and the completeness flag *)

\* the page the site serves for a url: the page of the jail number asked for
SitePage(url) == SubSeq(url, Len(INMATE_URL_PREFIX) + 1, Len(url))

\* InmatePage(body).booking_id
InmatePage_booking_id(body) == body

\* a file name of the day alone
generate_page_filename_of_day(tday, booking_id) == StrftimeIso(tday) \o ".html"

generate_page_filename(tday, booking_id) ==
    StrftimeIso(tday) \o "-" \o booking_id \o ".html"

\* os.path.join('data/raw', name)
LocalPath(tday, booking_id) == "data/raw/" \o generate_page_filename(tday, booking_id)

S3Key(c, tday, booking_id) ==
    LET key == c.TARGET \o "/raw/" \o generate_page_filename(tday, booking_id)
    IN  IF StartsWith(key, "/") THEN SubSeq(key, 2, Len(key)) ELSE key

\* the flag with yesterday included
is_complete_record_through_yesterday(booking_date, yday) == Strptime(booking_date) <= yday

is_complete_record(booking_date, yday) == Strptime(booking_date) < yday

-----------------------------------------------------------------------------
(* States *)

NoRow == [Booking_Id |-> "", Booking_Date |-> "", Incomplete |-> FALSE, none |-> TRUE]

Row(id, date, flag) ==
    [Booking_Id |-> id, Booking_Date |-> date, Incomplete |-> flag, none |-> FALSE]

NoSample == [full |-> <<>>, returned |-> <<>>, done |-> FALSE]

NoClassified == [b |-> ValueError, booking_date |-> "", Incomplete |-> FALSE, done |-> FALSE]

\* the state of a spider constructed on day t under configuration c, before it runs
Constructed(c, t, tst, exists, dly, at) ==
    /\ cfg = c
    /\ today = t
    /\ yesterday = t - ONE_DAY
    /\ testing = tst
    /\ dirExists = exists
    /\ daily = dly
    /\ pc = at
    /\ seed = Raised("")
    /\ start_date = ValueError
    /\ cursor = ValueError
    /\ scan = <<>>
    /\ urls = <<>>
    /\ nextReq = 1
    /\ req = <<>>
    /\ parseCalls = <<>>
    /\ rows = <<>>
    /\ raw_local = {}
    /\ raw_s3 = {}

\* every configuration, day and seed store of the bounds
InitEnum ==
    \E c \in Configs, t \in Days, tst \in BOOLEAN, dly \in SeedStores, exists \in BOOLEAN :
        /\ (~exists => dly = <<>>)
        /\ Constructed(c, t, tst, exists, dly, "start")
        /\ sample = NoSample
        /\ classified = NoClassified

\* the runs that are crawled: two days after the fallback date, the seed store
\* absent, empty or holding one partition two days back
CrawlStores ==
    { [d \in {WindowStart} |-> rws] :
        rws \in { r \in SeedContents : Len(r) \in 1..(MaxSeedRows - 1) } } \cup { <<>> }

Init ==
    \E c \in Configs, tst \in BOOLEAN, dly \in CrawlStores, exists \in BOOLEAN :
        /\ (~exists => dly = <<>>)
        /\ c.FALLBACK_START_DATE = StrftimeIso(WindowStart + 1)
        /\ Constructed(c, WindowStart + 2, tst, exists, dly, "start")
        /\ sample = NoSample
        /\ classified = NoClassified

AnyConfig == CHOOSE c \in Configs : ~c.USE_S3_STORAGE /\ ~c.USE_LOCAL_STORAGE

\* every length of the full url list, up to the bound
InitSample ==
    \E n \in 0..MaxSampleLen :
        /\ Constructed(AnyConfig, WindowStart, TRUE, FALSE, <<>>, "sample")
        /\ sample = [full |-> [i \in 1..n |-> i], returned |-> <<>>, done |-> FALSE]
        /\ classified = NoClassified

ClassifyDays == (WindowStart - 2) .. (WindowStart + MaxClassifyDays)

\* a spider constructed on any day of ClassifyDays
InitClassify ==
    \E t \in ClassifyDays :
        /\ Constructed(AnyConfig, t, FALSE, FALSE, <<>>, "classify")
        /\ sample = NoSample
        /\ classified = NoClassified

-----------------------------------------------------------------------------
(* Actions *)

\* _generate_urls, as the first step of start_requests
GenerateUrls ==
    /\ pc = "start"
    /\ \E r \in {generate_urls(cfg, dirExists, daily, today, testing)} :
           /\ seed' = r.seed
           /\ start_date' = r.start_date
           /\ cursor' = r.cursor
           /\ scan' = r.scan
           /\ urls' = r.urls
           /\ pc' = IF r.raised # "" THEN "raised" ELSE "crawl"
    /\ UNCHANGED <<cfg, today, yesterday, testing, dirExists, daily, nextReq, req,
                   parseCalls, rows, raw_local, raw_s3, sample, classified>>

\* a loop that passes over the url after the one it requests
start_requests_skipping ==
    /\ pc = "crawl"
    /\ nextReq <= Len(urls)
    /\ req' = Append(req, [url |-> urls[nextReq], status |-> "inflight"])
    /\ parseCalls' = Append(parseCalls, 0)
    /\ rows' = Append(rows, NoRow)
    /\ nextReq' = nextReq + 2
    /\ UNCHANGED <<cfg, today, yesterday, testing, dirExists, daily, pc, seed, start_date,
                   cursor, scan, urls, raw_local, raw_s3, sample, classified>>

\* one turn of the loop of start_requests: scrapy.Request(url=url, callback=self.parse)
start_requests ==
    /\ pc = "crawl"
    /\ nextReq <= Len(urls)
    /\ req' = Append(req, [url |-> urls[nextReq], status |-> "inflight"])
    /\ parseCalls' = Append(parseCalls, 0)
    /\ rows' = Append(rows, NoRow)
    /\ nextReq' = nextReq + 1
    /\ UNCHANGED <<cfg, today, yesterday, testing, dirExists, daily, pc, seed, start_date,
                   cursor, scan, urls, raw_local, raw_s3, sample, classified>>

\* the fetch of request i fails: the request has no errback, nothing is called
FetchFailed(i) ==
    /\ pc = "crawl"
    /\ req[i].status = "inflight"
    /\ req' = [req EXCEPT ![i].status = "failed"]
    /\ UNCHANGED <<cfg, today, yesterday, testing, dirExists, daily, pc, seed, start_date,
                   cursor, scan, urls, nextReq, parseCalls, rows, raw_local, raw_s3,
                   sample, classified>>

\* a write of body under key: the file or object of that key is replaced
Put(store, key, body) == { e \in store : e.key # key } \cup { [key |-> key, body |-> body] }

\* the booking dates the pages of a crawl show
BookingDates == { yesterday - ONE_DAY, yesterday }

\* _save_local: the page of request i written under its path
save_local(i) ==
    Put(raw_local, LocalPath(today, InmatePage_booking_id(SitePage(req[i].url))),
        SitePage(req[i].url))

\* _save_to_s3: the page of request i uploaded under its key
save_to_s3(i) ==
    Put(raw_s3, S3Key(cfg, today, InmatePage_booking_id(SitePage(req[i].url))),
        SitePage(req[i].url))

\* the row of lines 46-61 for a page that shows booking date b
ParsedRow(i, b) ==
    Row(InmatePage_booking_id(SitePage(req[i].url)), StrftimeIso(b),
        is_complete_record(StrftimeIso(b), yesterday))

\* the fetch of request i succeeds and parse is called with the response: the page
\* is saved where the configuration says, then the row is yielded; a write that
\* raises ends parse there
parse(i) ==
    /\ pc = "crawl"
    /\ req[i].status = "inflight"
    /\ parseCalls' = [parseCalls EXCEPT ![i] = @ + 1]
    /\ \/ /\ cfg.USE_LOCAL_STORAGE
          /\ req' = [req EXCEPT ![i].status = "raised_local"]
          /\ UNCHANGED <<rows, raw_local, raw_s3>>
       \/ /\ cfg.USE_S3_STORAGE
          /\ raw_local' = IF cfg.USE_LOCAL_STORAGE THEN save_local(i) ELSE raw_local
          /\ req' = [req EXCEPT ![i].status = "raised_s3"]
          /\ UNCHANGED <<rows, raw_s3>>
       \/ /\ raw_local' = IF cfg.USE_LOCAL_STORAGE THEN save_local(i) ELSE raw_local
          /\ raw_s3' = IF cfg.USE_S3_STORAGE THEN save_to_s3(i) ELSE raw_s3
          /\ \E b \in BookingDates : rows' = [rows EXCEPT ![i] = ParsedRow(i, b)]
          /\ req' = [req EXCEPT ![i].status = "parsed"]
    /\ UNCHANGED <<cfg, today, yesterday, testing, dirExists, daily, pc, seed, start_date,
                   cursor, scan, urls, nextReq, sample, classified>>

\* the sampling slice of _generate_urls applied to a full url list
SampleUrls ==
    /\ pc = "sample"
    /\ ~sample.done
    /\ sample' = [sample EXCEPT !.returned = SampleLast(sample.full), !.done = TRUE]
    /\ UNCHANGED <<cfg, today, yesterday, testing, dirExists, daily, pc, seed, start_date,
                   cursor, scan, urls, nextReq, req, parseCalls, rows, raw_local, raw_s3,
                   classified>>

\* _is_complete_record applied to the booking date of a page
ClassifyRecord ==
    /\ pc = "classify"
    /\ ~classified.done
    /\ \E b \in ClassifyDays :
         classified' = [b |-> b, booking_date |-> StrftimeIso(b),
                        Incomplete |-> is_complete_record(StrftimeIso(b), yesterday),
                        done |-> TRUE]
    /\ UNCHANGED <<cfg, today, yesterday, testing, dirExists, daily, pc, seed, start_date,
                   cursor, scan, urls, nextReq, req, parseCalls, rows, raw_local, raw_s3,
                   sample>>

-----------------------------------------------------------------------------
(* Specifications *)

Next ==
    \/ GenerateUrls
    \/ start_requests
    \/ \E i \in 1..Len(req) : FetchFailed(i)
    \/ \E i \in 1..Len(req) : parse(i)

\* one run of the spider
Spec == Init /\ [][Next]_vars

\* _generate_urls over every input of the bounds
SpecEnum == InitEnum /\ [][GenerateUrls]_vars

\* the sampling slice over every length of the full list
SpecSample == InitSample /\ [][SampleUrls]_vars

\* the completeness flag over every pair of days
SpecClassify == InitClassify /\ [][ClassifyRecord]_vars

-----------------------------------------------------------------------------
(* Properties of enumeration, under SpecEnum *)

Generated == pc = "crawl"

\* a partition was listed: the seed came from the last partition, not from the fallback
SeedFromPartition == dirExists /\ DOMAIN daily # {}

\* C1: whenever a last seed partition exists, whatever its record list holds, no
\* candidate of the scan loop is dated on or before the date resolved from it.
C1_NoCandidateOnOrBeforeSeedDate ==
    (Generated /\ SeedFromPartition) =>
        \A k \in 1..Len(scan) : scan[k].d > start_date

\* C2: the scan loop generates exactly MAX_DEFAULT_JAIL_NUMBER candidates, numbered
\* 1..MAX_DEFAULT_JAIL_NUMBER once each, for every day from the cursor up to the day
\* before today, and none for today or later; none at all when the cursor is at or
\* after today.
C2_ScanCoversCursorToYesterday ==
    Generated =>
        /\ \A d \in (WindowStart - 1) .. (WindowStart + MaxDays + 1) :
             \A n \in 0 .. (MAX_DEFAULT_JAIL_NUMBER + 1) :
                Cardinality({ k \in 1..Len(scan) : scan[k].d = d /\ scan[k].num = n })
                    = IF cursor <= d /\ d < today /\ n \in 1..MAX_DEFAULT_JAIL_NUMBER
                      THEN 1 ELSE 0
        /\ \A k \in 1..Len(scan) :
             /\ scan[k].d \in cursor .. (today - 1)
             /\ scan[k].num \in 1..MAX_DEFAULT_JAIL_NUMBER
        /\ (cursor >= today => scan = <<>>)

C2_Witness ==
    /\ Generated
    /\ today - cursor >= 2
    /\ Len(scan) = (today - cursor) * MAX_DEFAULT_JAIL_NUMBER

\* C3: with either seed backend, an empty or absent manifest makes seed resolution
\* return the fallback date and no identifiers, without an error, and enumeration
\* starts at the fallback date inclusive.
C3_EmptyManifestFallsBack ==
    (pc # "start" /\ ~SeedFromPartition) =>
        /\ pc = "crawl"
        /\ seed = Returned(cfg.FALLBACK_START_DATE, <<>>)
        /\ cursor = Strptime(cfg.FALLBACK_START_DATE)
        /\ (cursor < today => Len(scan) > 0 /\ scan[1].d = cursor)

\* the date and the number written in a jail number YYYY-MMDDnnn
WellFormedJailNumber(j) ==
    /\ Len(j) = 12
    /\ SubSeq(j, 5, 5) = "-"
    /\ AllDigits(SubSeq(j, 1, 4))
    /\ AllDigits(SubSeq(j, 6, 12))

JailDate(j) ==
    DaysFromCivil(DecVal(SubSeq(j, 1, 4)), DecVal(SubSeq(j, 6, 7)), DecVal(SubSeq(j, 8, 9)))

JailNum(j) == DecVal(SubSeq(j, 10, 12))

\* the identifier a url of the list carries
UrlId(url) == SubSeq(url, Len(INMATE_URL_PREFIX) + 1, Len(url))

SeedsFirst ==
    /\ Len(urls) = Len(seed.f) + Len(scan)
    /\ \A i \in 1..Len(seed.f) : urls[i] = INMATE_URL_PREFIX \o seed.f[i]
    /\ \A k \in 1..Len(scan) : UrlId(urls[Len(seed.f) + k]) = scan[k].jailnumber

GeneratedIncreasing ==
    \A k \in 1..Len(scan), l \in 1..Len(scan) :
        k < l =>
            LET a == UrlId(urls[Len(seed.f) + k])
                b == UrlId(urls[Len(seed.f) + l])
            IN  /\ WellFormedJailNumber(a) /\ WellFormedJailNumber(b)
                /\ \/ JailDate(a) < JailDate(b)
                   \/ JailDate(a) = JailDate(b) /\ JailNum(a) < JailNum(b)

\* C8 as claimed: in the full sequence the seed's identifiers come first, the
\* generated candidates are in strictly increasing (date, number) order, and no
\* identifier occurs twice in the sequence.
C8_NoIdentifierTwice ==
    (Generated /\ ~testing) =>
        /\ SeedsFirst
        /\ GeneratedIncreasing
        /\ \A i \in 1..Len(urls), j \in 1..Len(urls) : i # j => urls[i] # urls[j]

\* C8 as amended: in the full sequence the seed's identifiers come first, one per row
\* of the record list and in its order, the generated candidates are in strictly
\* increasing (date, number) order, and no generated candidate occurs twice among
\* the generated candidates.
C8_SeedsThenIncreasingScan ==
    (Generated /\ ~testing) =>
        /\ SeedsFirst
        /\ GeneratedIncreasing
        /\ \A k \in 1..Len(scan), l \in 1..Len(scan) :
             k # l => urls[Len(seed.f) + k] # urls[Len(seed.f) + l]

C8_Witness ==
    /\ Generated /\ ~testing
    /\ Len(seed.f) >= 2 /\ seed.f[1] = seed.f[2]
    /\ Len(scan) >= 2 * MAX_DEFAULT_JAIL_NUMBER

\* C9 as claimed: a generated identifier is the date as YYYYMMDD, eight digits and
\* no separator, followed by the number zero-padded to three digits.
C9_CompactDate ==
    Generated =>
        \A k \in 1..Len(scan) :
            LET c == CivilFromDays(scan[k].d)
            IN  scan[k].jailnumber =
                    ZeroPad(Decimal(c.y), 4) \o ZeroPad(Decimal(c.m), 2)
                        \o ZeroPad(Decimal(c.d), 2) \o ZeroPad(Decimal(scan[k].num), 3)

\* C9 as amended: a generated identifier is the date as YYYY-MMDD, the four digits
\* of the year, a hyphen, two digits of month and two of day, followed by the number
\* zero-padded to three digits.
C9_HyphenatedDate ==
    Generated =>
        \A k \in 1..Len(scan) :
            LET j == UrlId(urls[Len(urls) - Len(scan) + k])
            IN  /\ j = scan[k].jailnumber
                /\ WellFormedJailNumber(j)
                /\ JailDate(j) = scan[k].d
                /\ CivilFromDays(scan[k].d) =
                     [y |-> DecVal(SubSeq(j, 1, 4)), m |-> DecVal(SubSeq(j, 6, 7)),
                      d |-> DecVal(SubSeq(j, 8, 9))]
                /\ JailNum(j) = scan[k].num

C9_Witness ==
    /\ Generated
    /\ \E k \in 1..Len(scan) : scan[k].jailnumber = "2024-0101001"
    /\ \E k \in 1..Len(scan) : scan[k].jailnumber = "2023-1231002"

-----------------------------------------------------------------------------
(* Properties of the sampling slice, under SpecSample *)

Min(a, b) == IF a < b THEN a ELSE b

\* C10: in sampling mode the returned sequence is the last min(600, n) elements of
\* the full sequence of length n, in their order.
C10_LastK ==
    sample.done =>
        sample.returned =
            SubSeq(sample.full,
                   Len(sample.full) - Min(SAMPLE_SIZE, Len(sample.full)) + 1,
                   Len(sample.full))

-----------------------------------------------------------------------------
(* Properties of the completeness flag, under SpecClassify *)

\* C6: the flag is true exactly when the booking date is before today - 1 day;
\* it is false for today - 1 day and for today.
C6_IncompleteIffBeforeYesterday ==
    classified.done =>
        /\ classified.Incomplete = (classified.b < today - 1)
        /\ (classified.b \in {today - 1, today} => ~classified.Incomplete)

C6_Witness ==
    /\ classified.done
    /\ classified.b = today - 1
    /\ ~classified.Incomplete

-----------------------------------------------------------------------------
(* Properties of the crawl, under Spec *)

Fetched(i) == req[i].status \in {"parsed", "raised_local", "raised_s3"}

\* every request is the request of its url, and parse was called once for each
\* request whose fetch succeeded and for no other
OneRequestPerUrl ==
    pc = "crawl" =>
        /\ Len(req) = nextReq - 1
        /\ Len(req) <= Len(urls)
        /\ \A i \in 1..Len(req) : req[i].url = urls[i]
        /\ \A i \in 1..Len(req) : parseCalls[i] = IF Fetched(i) THEN 1 ELSE 0
        /\ (Len(req) < Len(urls) => ENABLED start_requests)

\* a step that answers one request leaves every other request as it was
OthersUntouched ==
    \A i \in 1..Len(req), j \in 1..Len(req) :
        (i # j /\ req'[i] # req[i]) =>
            /\ req'[j] = req[j]
            /\ rows'[j] = rows[j]
            /\ parseCalls'[j] = parseCalls[j]

\* C4: start_requests issues one request for each element of the url list, in its
\* order, whatever the fetches in flight do; parse is called exactly once for each
\* request whose fetch succeeded and never for another; and the answer to one
\* request, a failure or a page, changes nothing of any other request.
C4_OneRequestPerUrl == [](OneRequestPerUrl) /\ [][OthersUntouched]_vars

C4_Witness ==
    /\ pc = "crawl"
    /\ Len(req) = 3 /\ Len(urls) = 3
    /\ req[1].status = "inflight"
    /\ req[2].status = "failed"
    /\ req[3].status = "parsed" /\ ~rows[3].none

\* C5: when a raw-page write fails for a fetched candidate, parse still emits the
\* row of that candidate.
C5_RowDespiteWriteFailure ==
    \A i \in 1..Len(req) :
        req[i].status \in {"raised_local", "raised_s3"} => ~rows[i].none

StoredLocal(i) == cfg.USE_LOCAL_STORAGE /\ req[i].status \in {"parsed", "raised_s3"}

StoredS3(i) == cfg.USE_S3_STORAGE /\ req[i].status = "parsed"

====
